---- MODULE Spec2Model ----
(***************************************************************************)
(* Orchestration layer of personalAgent: the pause/resume State Store      *)
(* (state_persistence.py), the Session Store (session_manager.py), the     *)
(* preference store (memory_bank.py) and the Orchestrator with its intent  *)
(* classifier and router (orchestrator_agent.py).                          *)
(***************************************************************************)
EXTENDS Integers, Sequences, FiniteSets, TLC

VARIABLES
    now,          \* the wall clock read by datetime.now(timezone.utc)
    stateFiles,   \* storage_path/<task_id>.json : task_id -> stored dict
    indexFiles,   \* storage_path/user_<user_id>_index.json : user_id -> ordered dict
    sessions,     \* InMemorySessionService._sessions : session_id -> Session
    uuidCount,    \* how many uuid4() values have been drawn
    userFiles,    \* MemoryBank: user_id -> preferences of the user's data file
    lastCall,     \* the last Session Store / Orchestrator call and what it returned
    lastStore,    \* the last State Store call: its name, task_id, outcome and whether
                  \* the task had a record when it was called
    inflight      \* the calls in progress: call id -> its position and locals

storeVars == <<stateFiles, indexFiles, lastStore>>
chatVars == <<sessions, uuidCount, userFiles, lastCall>>

----------------------------------------------------------------------------
(* Bounds *)

MaxTime == 1
MaxMsgs == 3
MaxFragments == 3
MaxExchanges == 2

Tasks == {"t1", "t2"}
Users == {"u1", "u2"}

\* The status strings update_task_status is called with.
Statuses == {"paused", "completed"}

\* The state dicts a caller hands to save_state.  A dict is a function from
\* its keys; a key the caller left out is not in the DOMAIN.
CallerStates ==
    { [user_id |-> "u1", agent_type |-> "meal", status |-> "running",
       current_step |-> 1, total_steps |-> 3, context |-> "ctxA"],
      [user_id |-> "u2", current_step |-> 0, total_steps |-> 3,
       context |-> "ctxB"],
      [agent_type |-> "meal", status |-> "paused",
       current_step |-> 1, total_steps |-> 3, context |-> "ctxA"] }

----------------------------------------------------------------------------
(* Python dict helpers *)

\* {**d, **e}
Merge(d, e) ==
    [k \in (DOMAIN d) \cup (DOMAIN e) |-> IF k \in DOMAIN e THEN e[k] ELSE d[k]]

\* d.get(k, default)
Get(d, k, default) == IF k \in DOMAIN d THEN d[k] ELSE default

\* del d[k]
Without(d, k) == [x \in (DOMAIN d) \ {k} |-> d[x]]

\* d[k] = v on a mapping
Put(d, k, v) == [x \in (DOMAIN d) \cup {k} |-> IF x = k THEN v ELSE d[x]]

\* An ordered dict keyed by task_id is a sequence of its values in insertion
\* order; every value carries its key in the field task_id.
HasKey(index, task_id) == \E i \in 1..Len(index) : index[i].task_id = task_id

SelectSeqNot(index, task_id) ==
    LET keep(e) == e.task_id # task_id IN SelectSeq(index, keep)

----------------------------------------------------------------------------
(* State Store: state_persistence.py *)

load_user_index(idx, user_id) ==
    IF user_id \in DOMAIN idx THEN idx[user_id] ELSE <<>>

save_user_index(idx, user_id, index) == Put(idx, user_id, index)

\* (variant) the entry is appended without looking for the key
IndexAssign_AlwaysAppend(index, task_id, entry) == Append(index, entry)

\* index[task_id] = entry : replaces the value in place when the key is
\* there, appends it otherwise.
IndexAssign(index, task_id, entry) ==
    IF HasKey(index, task_id)
    THEN [i \in 1..Len(index) |->
            IF index[i].task_id = task_id THEN entry ELSE index[i]]
    ELSE Append(index, entry)

\* (variant) the whole index is emptied
IndexDel_Clear(index, task_id) == <<>>

\* del index[task_id]
IndexDel(index, task_id) == SelectSeqNot(index, task_id)

\* (variant) the user_id check is made after the state file is written
save_state_LateCheck(st, task_id, state, t) ==
    LET state_with_metadata ==
            Merge(state, [task_id |-> task_id, saved_at |-> t])
        files == Put(st.files, task_id, state_with_metadata)
    IN  IF "user_id" \notin DOMAIN state
        THEN [files |-> files, idx |-> st.idx, error |-> "ValueError"]
        ELSE LET user_id == state.user_id
                 index   == load_user_index(st.idx, user_id)
                 entry   == [task_id    |-> task_id,
                             agent_type |-> Get(state, "agent_type", "unknown"),
                             status     |-> Get(state, "status", "paused"),
                             saved_at   |-> state_with_metadata.saved_at]
             IN  [files |-> files,
                  idx   |-> Put(st.idx, user_id,
                                IndexAssign(index, task_id, entry)),
                  error |-> "none"]

\* (variant) task_id and saved_at are written into the caller's dict
save_state_InPlace(st, task_id, state, t) ==
    IF "user_id" \notin DOMAIN state
    THEN [files |-> st.files, idx |-> st.idx, error |-> "ValueError",
          caller |-> state]
    ELSE LET state_with_metadata ==
                 Merge(state, [task_id |-> task_id, saved_at |-> t])
             user_id == state.user_id
             index   == load_user_index(st.idx, user_id)
             entry   == [task_id    |-> task_id,
                         agent_type |-> Get(state, "agent_type", "unknown"),
                         status     |-> Get(state, "status", "paused"),
                         saved_at   |-> state_with_metadata.saved_at]
         IN  [files |-> Put(st.files, task_id, state_with_metadata),
              idx   |-> save_user_index(st.idx, user_id,
                                        IndexAssign(index, task_id, entry)),
              error |-> "none",
              caller |-> state_with_metadata]

\* A store is [files |-> stateFiles, idx |-> indexFiles]; every operation
\* returns the store it leaves and the error it raised ("none" when it
\* returned normally); save_state also returns the caller's dict as the
\* call leaves it.
save_state(st, task_id, state, t) ==
    IF "user_id" \notin DOMAIN state
    THEN [files |-> st.files, idx |-> st.idx, error |-> "ValueError",
          caller |-> state]
    ELSE LET state_with_metadata ==
                 Merge(state, [task_id |-> task_id, saved_at |-> t])
             user_id == state.user_id
             index   == load_user_index(st.idx, user_id)
             entry   == [task_id    |-> task_id,
                         agent_type |-> Get(state, "agent_type", "unknown"),
                         status     |-> Get(state, "status", "paused"),
                         saved_at   |-> state_with_metadata.saved_at]
         IN  [files |-> Put(st.files, task_id, state_with_metadata),
              idx   |-> save_user_index(st.idx, user_id,
                                        IndexAssign(index, task_id, entry)),
              error |-> "none",
              caller |-> state]

\* load_state returns the stored dict, or None: a sequence of length <= 1.
load_state(files, task_id) ==
    IF task_id \in DOMAIN files THEN <<files[task_id]>> ELSE <<>>

\* (variant) the state file is unlinked without the exists() test
delete_state_NoExistsCheck(st, task_id) ==
    IF task_id \notin DOMAIN st.files
    THEN [files |-> st.files, idx |-> st.idx, error |-> "FileNotFoundError"]
    ELSE LET user_id == st.files[task_id].user_id
             index   == load_user_index(st.idx, user_id)
         IN  [files |-> Without(st.files, task_id),
              idx   |-> IF HasKey(index, task_id)
                        THEN Put(st.idx, user_id, IndexDel(index, task_id))
                        ELSE st.idx,
              error |-> "none"]

delete_state(st, task_id) ==
    LET state == load_state(st.files, task_id)
        files == IF task_id \in DOMAIN st.files
                 THEN Without(st.files, task_id) ELSE st.files
    IN  IF state # <<>> /\ "user_id" \in DOMAIN state[1]
        THEN LET user_id == state[1].user_id
                 index   == load_user_index(st.idx, user_id)
             IN  IF HasKey(index, task_id)
                 THEN [files |-> files,
                       idx   |-> save_user_index(st.idx, user_id,
                                                 IndexDel(index, task_id)),
                       error |-> "none"]
                 ELSE [files |-> files, idx |-> st.idx, error |-> "none"]
        ELSE [files |-> files, idx |-> st.idx, error |-> "none"]

list_paused_tasks(idx, user_id) == load_user_index(idx, user_id)

task_exists(files, task_id) == task_id \in DOMAIN files

\* (variant) the record is rebuilt from the fields the index needs
update_task_status_Rebuild(st, task_id, status, t) ==
    LET state == load_state(st.files, task_id)
    IN  IF state # <<>>
        THEN save_state(st, task_id,
                        [user_id |-> state[1].user_id, status |-> status,
                         updated_at |-> t],
                        t)
        ELSE [files |-> st.files, idx |-> st.idx, error |-> "none"]

update_task_status(st, task_id, status, t) ==
    LET state == load_state(st.files, task_id)
    IN  IF state # <<>>
        THEN save_state(st, task_id,
                        Merge(state[1], [status |-> status, updated_at |-> t]),
                        t)
        ELSE [files |-> st.files, idx |-> st.idx, error |-> "none"]

Store == [files |-> stateFiles, idx |-> indexFiles]

----------------------------------------------------------------------------
(* Text.  A text is a sequence of strings; a user message is a sequence of *)
(* one-character strings, so that substring and pattern tests act on its   *)
(* characters.                                                             *)

UpperToLower ==
    [A |-> "a", B |-> "b", C |-> "c", D |-> "d", E |-> "e", F |-> "f",
     G |-> "g", H |-> "h", I |-> "i", J |-> "j", K |-> "k", L |-> "l",
     M |-> "m", N |-> "n", O |-> "o", P |-> "p", Q |-> "q", R |-> "r",
     S |-> "s", T |-> "t", U |-> "u", V |-> "v", W |-> "w", X |-> "x",
     Y |-> "y", Z |-> "z"]

UpperChars == DOMAIN UpperToLower
LowerChars == {UpperToLower[c] : c \in UpperChars}
DigitValue ==
    [c \in {"0", "1", "2", "3", "4", "5", "6", "7", "8", "9"} |->
        CASE c = "0" -> 0 [] c = "1" -> 1 [] c = "2" -> 2 [] c = "3" -> 3
          [] c = "4" -> 4 [] c = "5" -> 5 [] c = "6" -> 6 [] c = "7" -> 7
          [] c = "8" -> 8 [] c = "9" -> 9]
DigitChars == DOMAIN DigitValue
SpaceChars == {" ", "\t", "\n"}

\* str.lower()
Lower(text) ==
    [i \in 1..Len(text) |->
        IF text[i] \in UpperChars THEN UpperToLower[text[i]] ELSE text[i]]

\* text[i:i+len(word)] == word
MatchAt(text, i, word) ==
    /\ i >= 1
    /\ i + Len(word) - 1 <= Len(text)
    /\ \A k \in 1..Len(word) : text[i + k - 1] = word[k]

\* word in text
Contains(text, word) == \E i \in 1..Len(text) : MatchAt(text, i, word)

\* The index one past the longest run of characters of class cls that
\* starts at i (i itself when text[i] is not in cls).
RECURSIVE RunEnd(_, _, _)
RunEnd(text, i, cls) ==
    IF i <= Len(text) /\ text[i] \in cls THEN RunEnd(text, i + 1, cls) ELSE i

\* int(digits)
RECURSIVE IntOf(_)
IntOf(digits) ==
    IF digits = <<>> THEN 0
    ELSE 10 * IntOf(SubSeq(digits, 1, Len(digits) - 1))
         + DigitValue[digits[Len(digits)]]

\* str(n) for a natural number
RECURSIVE StrOf(_)
StrOf(n) ==
    LET d == CHOOSE c \in DigitChars : DigitValue[c] = n % 10
    IN  IF n < 10 THEN <<d>> ELSE StrOf(n \div 10) \o <<d>>

\* The least element of a non-empty set of integers.
Min(S) == CHOOSE x \in S : \A y \in S : x <= y

----------------------------------------------------------------------------
(* Intent classifier: OrchestratorAgent._parse_intent *)

MealWords ==
    { <<"m", "e", "a", "l">>,
      <<"r", "e", "c", "i", "p", "e">>,
      <<"c", "o", "o", "k">>,
      <<"e", "a", "t">>,
      <<"f", "o", "o", "d">>,
      <<"d", "i", "n", "n", "e", "r">>,
      <<"l", "u", "n", "c", "h">>,
      <<"b", "r", "e", "a", "k", "f", "a", "s", "t">> }

ShoppingWords ==
    { <<"s", "h", "o", "p">>,
      <<"g", "r", "o", "c", "e", "r", "y">>,
      <<"g", "r", "o", "c", "e", "r", "i", "e", "s">>,
      <<"b", "u", "y">>,
      <<"i", "n", "g", "r", "e", "d", "i", "e", "n", "t">>,
      <<"s", "t", "o", "r", "e">> }

TravelWords ==
    { <<"t", "r", "a", "v", "e", "l">>,
      <<"t", "r", "i", "p">>,
      <<"v", "a", "c", "a", "t", "i", "o", "n">>,
      <<"v", "i", "s", "i", "t">>,
      <<"h", "o", "t", "e", "l">>,
      <<"f", "l", "i", "g", "h", "t">> }

AnyWord(text, words) == \E w \in words : Contains(text, w)

\* (variant) with several domains present the first one is returned
parse_intent_FirstDomain(message) ==
    LET message_lower == Lower(message)
        d1 == IF AnyWord(message_lower, MealWords)
              THEN <<"meal_planning">> ELSE <<>>
        d2 == IF AnyWord(message_lower, ShoppingWords)
              THEN Append(d1, "shopping") ELSE d1
        domains == IF AnyWord(message_lower, TravelWords)
                   THEN Append(d2, "travel") ELSE d2
    IN  IF Len(domains) = 0 THEN "ambiguous" ELSE domains[1]

parse_intent(message) ==
    LET message_lower == Lower(message)
        d1 == IF AnyWord(message_lower, MealWords)
              THEN <<"meal_planning">> ELSE <<>>
        d2 == IF AnyWord(message_lower, ShoppingWords)
              THEN Append(d1, "shopping") ELSE d1
        domains == IF AnyWord(message_lower, TravelWords)
                   THEN Append(d2, "travel") ELSE d2
    IN  IF Len(domains) = 0 THEN "ambiguous"
        ELSE IF Len(domains) = 1 THEN domains[1]
        ELSE "multi_domain"

generate_clarifying_questions(message) ==
    << "I'm not sure what you'd like help with. ",
       "I can assist with:\n",
       "- Meal planning (creating weekly meal plans)\n",
       "- Shopping lists (generating grocery lists)\n",
       "- Travel planning (planning trips and itineraries)\n\n",
       "What would you like to do?" >>

----------------------------------------------------------------------------
(* Parameter extraction: _extract_days, _extract_destination *)

WordDay == <<"d", "a", "y">>
WordDashDay == <<"-", "d", "a", "y">>
WordFor == <<"f", "o", "r">>
WordWeek == <<"w", "e", "e", "k">>
WordTo == <<"t", "o">>
WordVisit == <<"v", "i", "s", "i", "t">>
WordTrip == <<"t", "r", "i", "p">>
WordIn == <<"i", "n">>
WordMeal == <<"m", "e", "a", "l">>
WordShop == <<"s", "h", "o", "p">>
WordTravel == <<"t", "r", "a", "v", "e", "l">>

\* A match of (\d+)\s*days? whose digits start at i: the digits, else <<>>.
\* \d+ is greedy and a shorter run can never be followed by \s*day.
DaysAt1(text, i) ==
    LET e == RunEnd(text, i, DigitChars)
        w == RunEnd(text, e, SpaceChars)
    IN  IF e > i /\ MatchAt(text, w, WordDay) THEN SubSeq(text, i, e - 1)
        ELSE <<>>

\* (\d+)-day
DaysAt2(text, i) ==
    LET e == RunEnd(text, i, DigitChars)
    IN  IF e > i /\ MatchAt(text, e, WordDashDay) THEN SubSeq(text, i, e - 1)
        ELSE <<>>

\* for\s+(\d+)\s+days? with "for" starting at i
DaysAt3(text, i) ==
    LET a == i + Len(WordFor)
        b == RunEnd(text, a, SpaceChars)
        e == RunEnd(text, b, DigitChars)
        w == RunEnd(text, e, SpaceChars)
    IN  IF /\ MatchAt(text, i, WordFor) /\ b > a /\ e > b /\ w > e
           /\ MatchAt(text, w, WordDay)
        THEN SubSeq(text, b, e - 1)
        ELSE <<>>

\* re.search tries the start positions from the left: the leftmost position
\* among hits, or 0 when there is none.
Leftmost(hits) == IF hits = {} THEN 0 ELSE Min(hits)

DaysSearch1(text) ==
    LET i == Leftmost({k \in 1..Len(text) : DaysAt1(text, k) # <<>>})
    IN  IF i = 0 THEN <<>> ELSE DaysAt1(text, i)

DaysSearch2(text) ==
    LET i == Leftmost({k \in 1..Len(text) : DaysAt2(text, k) # <<>>})
    IN  IF i = 0 THEN <<>> ELSE DaysAt2(text, i)

DaysSearch3(text) ==
    LET i == Leftmost({k \in 1..Len(text) : DaysAt3(text, k) # <<>>})
    IN  IF i = 0 THEN <<>> ELSE DaysAt3(text, i)

\* Returns <<n>>, or <<>> for None.
extract_days(message) ==
    LET m  == Lower(message)
        g1 == DaysSearch1(m)
        g2 == DaysSearch2(m)
        g3 == DaysSearch3(m)
    IN  IF g1 # <<>> THEN <<IntOf(g1)>>
        ELSE IF g2 # <<>> THEN <<IntOf(g2)>>
        ELSE IF g3 # <<>> THEN <<IntOf(g3)>>
        ELSE IF Contains(m, WordWeek) THEN <<7>>
        ELSE <<>>

\* [A-Z][a-z]+ starting at i: the index one past it, or i when it fails.
CapWordEnd(text, i) ==
    IF i <= Len(text) /\ text[i] \in UpperChars
       /\ RunEnd(text, i + 1, LowerChars) > i + 1
    THEN RunEnd(text, i + 1, LowerChars)
    ELSE i

\* ([A-Z][a-z]+(?:\s+[A-Z][a-z]+)?) starting at i: the group, else <<>>.
\* Both [a-z]+ are greedy and the second word is taken when it is there.
NameAt(text, i) ==
    LET e1 == CapWordEnd(text, i)
        s  == RunEnd(text, e1, SpaceChars)
        e2 == CapWordEnd(text, s)
    IN  IF e1 = i THEN <<>>
        ELSE IF s > e1 /\ e2 > s THEN SubSeq(text, i, e2 - 1)
        ELSE SubSeq(text, i, e1 - 1)

\* <word>\s+(name) with the word starting at i
AfterWord(text, i, word) ==
    LET a == i + Len(word)
        b == RunEnd(text, a, SpaceChars)
    IN  IF MatchAt(text, i, word) /\ b > a THEN NameAt(text, b) ELSE <<>>

DestAt1(text, i) == AfterWord(text, i, WordTo)
DestAt2(text, i) == AfterWord(text, i, WordVisit)
\* trip\s+to\s+(name)
DestAt3(text, i) ==
    LET a == i + Len(WordTrip)
        b == RunEnd(text, a, SpaceChars)
    IN  IF MatchAt(text, i, WordTrip) /\ b > a
        THEN AfterWord(text, b, WordTo) ELSE <<>>
DestAt4(text, i) == AfterWord(text, i, WordIn)

DestSearch1(text) ==
    LET i == Leftmost({k \in 1..Len(text) : DestAt1(text, k) # <<>>})
    IN  IF i = 0 THEN <<>> ELSE DestAt1(text, i)

DestSearch2(text) ==
    LET i == Leftmost({k \in 1..Len(text) : DestAt2(text, k) # <<>>})
    IN  IF i = 0 THEN <<>> ELSE DestAt2(text, i)

DestSearch3(text) ==
    LET i == Leftmost({k \in 1..Len(text) : DestAt3(text, k) # <<>>})
    IN  IF i = 0 THEN <<>> ELSE DestAt3(text, i)

DestSearch4(text) ==
    LET i == Leftmost({k \in 1..Len(text) : DestAt4(text, k) # <<>>})
    IN  IF i = 0 THEN <<>> ELSE DestAt4(text, i)

\* Returns the destination text, or <<>> for None.
extract_destination(message) ==
    LET g1 == DestSearch1(message)
        g2 == DestSearch2(message)
        g3 == DestSearch3(message)
        g4 == DestSearch4(message)
    IN  IF g1 # <<>> THEN g1
        ELSE IF g2 # <<>> THEN g2
        ELSE IF g3 # <<>> THEN g3
        ELSE g4

----------------------------------------------------------------------------
(* The user messages of the model, and their analyses computed once.       *)

\* "hello there"
MsgHello ==
    <<"h", "e", "l", "l", "o", " ", "t", "h", "e", "r", "e">>
\* "Create a 5-day vegetarian meal plan"
MsgMeal5 ==
    <<"C", "r", "e", "a", "t", "e", " ", "a", " ", "5", "-", "d", "a", "y", " ", "v", "e", "g", "e", "t", "a", "r", "i", "a", "n", " ", "m", "e", "a", "l", " ", "p", "l", "a", "n">>
\* "buy groceries"
MsgBuy ==
    <<"b", "u", "y", " ", "g", "r", "o", "c", "e", "r", "i", "e", "s">>
\* "Plan a trip to Tokyo for 5 days"
MsgTokyo ==
    <<"P", "l", "a", "n", " ", "a", " ", "t", "r", "i", "p", " ", "t", "o", " ", "T", "o", "k", "y", "o", " ", "f", "o", "r", " ", "5", " ", "d", "a", "y", "s">>
\* "plan a vacation"
MsgVacation ==
    <<"p", "l", "a", "n", " ", "a", " ", "v", "a", "c", "a", "t", "i", "o", "n">>
\* "meal prep and trip to New York"
MsgMulti ==
    <<"m", "e", "a", "l", " ", "p", "r", "e", "p", " ", "a", "n", "d", " ", "t", "r", "i", "p", " ", "t", "o", " ", "N", "e", "w", " ", "Y", "o", "r", "k">>

\* "meal plan, shop and trip to Rome"
MsgAll ==
    <<"m", "e", "a", "l", " ", "p", "l", "a", "n", ",", " ", "s", "h", "o", "p", " ", "a", "n", "d", " ", "t", "r", "i", "p", " ", "t", "o", " ", "R", "o", "m", "e">>

KnownMessages ==
    {MsgHello, MsgMeal5, MsgBuy, MsgTokyo, MsgVacation, MsgMulti, MsgAll}

\* Cached(table, x, v) is v; the table holds v for the known messages.
Cached(table, x, v) == IF x \in DOMAIN table THEN table[x] ELSE v

parse_intent_table == [m \in KnownMessages |-> parse_intent(m)]
extract_days_table == [m \in KnownMessages |-> extract_days(m)]
extract_destination_table == [m \in KnownMessages |-> extract_destination(m)]

----------------------------------------------------------------------------
(* Memory bank: memory_bank.py.  userFiles maps a user that has a data     *)
(* file to its preferences dict.                                           *)

get_all_preferences(bank, user_id) ==
    IF user_id \in DOMAIN bank THEN bank[user_id] ELSE <<>>

save_preference(bank, user_id, key, value) ==
    Put(bank, user_id, Put(get_all_preferences(bank, user_id), key, value))

----------------------------------------------------------------------------
(* Session Store: session_manager.py.  A store maps session_id -> Session. *)

\* Session(session_id, user_id): created_at and updated_at are two reads of
\* the clock, the second not before the first.
NewSession(session_id, user_id, t0, t1) ==
    [session_id |-> session_id, user_id |-> user_id, messages |-> <<>>,
     created_at |-> t0, updated_at |-> t1, metadata |-> <<>>]

\* Message(role, content)
NewMessage(role, content, t) ==
    [role |-> role, content |-> content, timestamp |-> t]

create_session(ss, bank, session_id, user_id, t0, t1) ==
    LET session == NewSession(session_id, user_id, t0, t1)
        preferences == get_all_preferences(bank, user_id)
    IN  Put(ss, session_id,
            [session EXCEPT !.metadata = Put(@, "preferences", preferences)])

\* get_session returns the Session, or None: a sequence of length <= 1.
get_session(ss, session_id) ==
    IF session_id \in DOMAIN ss THEN <<ss[session_id]>> ELSE <<>>

\* (variant) the new messages are put in front of the history
update_session_Prepend(ss, session_id, messages, t) ==
    IF session_id \in DOMAIN ss
    THEN [ss EXCEPT ![session_id] =
            [@ EXCEPT !.messages = messages \o @, !.updated_at = t]]
    ELSE ss

\* (variant) the messages are stored but updated_at keeps its value
update_session_NoStamp(ss, session_id, messages, t) ==
    IF session_id \in DOMAIN ss
    THEN [ss EXCEPT ![session_id] = [@ EXCEPT !.messages = @ \o messages]]
    ELSE ss

update_session(ss, session_id, messages, t) ==
    IF session_id \in DOMAIN ss
    THEN [ss EXCEPT ![session_id] =
            [@ EXCEPT !.messages = @ \o messages, !.updated_at = t]]
    ELSE ss

add_message(ss, session_id, role, content, t) ==
    update_session(ss, session_id, <<NewMessage(role, content, t)>>, t)

close_session(ss, session_id) ==
    IF session_id \in DOMAIN ss THEN Without(ss, session_id) ELSE ss

get_conversation_history(ss, session_id) ==
    IF session_id \in DOMAIN ss THEN ss[session_id].messages ELSE <<>>

\* (variant) every stored session is listed, whoever owns it
list_user_sessions_All(ss, user_id) ==
    {ss[id] : id \in DOMAIN ss}

list_user_sessions(ss, user_id) ==
    {ss[id] : id \in {x \in DOMAIN ss : ss[x].user_id = user_id}}

update_session_metadata(ss, session_id, key, value, t) ==
    IF session_id \in DOMAIN ss
    THEN [ss EXCEPT ![session_id] =
            [@ EXCEPT !.metadata = Put(@, key, value), !.updated_at = t]]
    ELSE ss

----------------------------------------------------------------------------
(* Domain agents, as the router sees them: a call returns a plan or raises. *)
(* ok is the outcome of the agent's own searches (recipes or               *)
(* accommodations found).                                                  *)

Returned(value) == [raised |-> FALSE, value |-> value, error |-> <<>>]
Raised(error)   == [raised |-> TRUE, value |-> <<>>, error |-> error]

\* The length of _get_meal_types(meals_per_day)
MealTypeCount(meals_per_day) ==
    IF meals_per_day = 1 THEN 1
    ELSE IF meals_per_day = 2 THEN 2
    ELSE IF meals_per_day = 3 THEN 3
    ELSE 4

generate_meal_plan(user_id, days, preferences, ok) ==
    IF days < 1 THEN Raised(<<"Days must be at least 1">>)
    ELSE IF ~ok THEN Raised(<<"Meal plan must have at least one meal">>)
    ELSE Returned([type |-> "MealPlan", user_id |-> user_id,
                   duration_days |-> days,
                   meals |-> days * MealTypeCount(Get(preferences,
                                                      "meals_per_day", 3)),
                   total_recipes |-> 1])

\* dates are day offsets from date.today()
plan_trip(user_id, destination, dates, budget, preferences, ok) ==
    IF budget < 0 THEN Raised(<<"Budget must be non-negative">>)
    ELSE IF dates[1] > dates[2]
    THEN Raised(<<"Start date must be before or equal to end date">>)
    ELSE IF ~ok
    THEN Raised(<<"No accommodations found in ">> \o destination
                \o <<" within budget">>)
    ELSE Returned([type |-> "TripPlan", user_id |-> user_id,
                   destination |-> destination,
                   duration_days |-> (dates[2] - dates[1]) + 1,
                   accommodation |-> <<"Grand Hotel">>,
                   estimated_cost |-> <<"1500.00">>])

----------------------------------------------------------------------------
(* Router: OrchestratorAgent.route_to_agent                                *)
(* A route returns [result |-> the dict returned, calls |-> the agent      *)
(* calls it made, in order].                                               *)

DefaultStartOffset == 30
DefaultNights == 7
DefaultBudget == 2000

ErrorResult(e) ==
    [success |-> FALSE, message |-> <<"Error processing request: ">> \o e]

\* (variant) what the meal agent raised is handed on as it is
MealRoute_Propagate(user_id, preferences, extracted, ok) ==
    LET days == IF extracted # <<>> /\ extracted[1] # 0
                THEN extracted[1] ELSE 7
        r == generate_meal_plan(user_id, days, preferences, ok)
        call == [agent |-> "meal", user_id |-> user_id,
                 days |-> days, preferences |-> preferences]
    IN  [result |->
           IF r.raised THEN r
           ELSE [success |-> TRUE, data |-> r.value,
                 message |-> <<"Generated ">> \o StrOf(days)
                             \o <<"-day meal plan">>],
         calls |-> <<call>>]

\* The meal_planning branch, given what _extract_days returned.
MealRoute(user_id, preferences, extracted, ok) ==
    LET days == IF extracted # <<>> /\ extracted[1] # 0
                THEN extracted[1] ELSE 7
        r == generate_meal_plan(user_id, days, preferences, ok)
        call == [agent |-> "meal", user_id |-> user_id,
                 days |-> days, preferences |-> preferences]
    IN  [result |->
           IF r.raised THEN ErrorResult(r.error)
           ELSE [success |-> TRUE, data |-> r.value,
                 message |-> <<"Generated ">> \o StrOf(days)
                             \o <<"-day meal plan">>],
         calls |-> <<call>>]

\* (variant) the shopping agent is asked for a list
ShoppingRoute_CallsAgent ==
    [result |->
       [success |-> TRUE,
        data |-> [type |-> "ShoppingList", items |-> 1, categories |-> 1,
                  estimated_total |-> <<"0.00">>],
        message |-> <<"Generated shopping list">>],
     calls |-> <<[agent |-> "shopping"]>>]

\* The shopping branch.
ShoppingRoute ==
    [result |->
       [success |-> FALSE,
        message |-> <<"Please generate a ", "meal plan first",
                      " before creating a shopping list">>],
     calls |-> <<>>]

\* (variant) the travel agent is called whether or not a destination was found
TravelRoute_CallsAnyway(user_id, preferences, destination, ok) ==
    LET start_date == DefaultStartOffset
        end_date   == start_date + DefaultNights
        budget     == DefaultBudget
        r == plan_trip(user_id, destination, <<start_date, end_date>>,
                       budget, preferences, ok)
        call == [agent |-> "travel", user_id |-> user_id,
                 destination |-> destination,
                 dates |-> <<start_date, end_date>>,
                 budget |-> budget, preferences |-> preferences]
    IN  [result |->
           IF r.raised THEN ErrorResult(r.error)
           ELSE [success |-> TRUE, data |-> r.value,
                 message |-> <<"Created trip plan for ">> \o destination],
         calls |-> <<call>>]

\* The travel branch, given what _extract_destination returned.
TravelRoute(user_id, preferences, destination, ok) ==
    IF destination = <<>>
    THEN [result |->
            [success |-> FALSE,
             message |-> <<"Please specify a destination for your trip">>],
          calls |-> <<>>]
    ELSE LET start_date == DefaultStartOffset
             end_date   == start_date + DefaultNights
             budget     == DefaultBudget
             r == plan_trip(user_id, destination, <<start_date, end_date>>,
                            budget, preferences, ok)
             call == [agent |-> "travel", user_id |-> user_id,
                      destination |-> destination,
                      dates |-> <<start_date, end_date>>,
                      budget |-> budget, preferences |-> preferences]
         IN  [result |->
                IF r.raised THEN ErrorResult(r.error)
                ELSE [success |-> TRUE, data |-> r.value,
                      message |-> <<"Created trip plan for ">>
                                  \o destination],
              calls |-> <<call>>]

\* The branches of route_to_agent that call at most one agent.
RouteOne(intent, context, oracle) ==
    IF intent = "meal_planning"
    THEN MealRoute(context.user_id, Get(context, "preferences", <<>>),
                   Cached(extract_days_table, Get(context, "message", <<>>),
                          extract_days(Get(context, "message", <<>>))),
                   oracle.meal)
    ELSE IF intent = "shopping" THEN ShoppingRoute
    ELSE IF intent = "travel"
    THEN TravelRoute(context.user_id, Get(context, "preferences", <<>>),
                     Cached(extract_destination_table,
                            Get(context, "message", <<>>),
                            extract_destination(Get(context, "message", <<>>))),
                     oracle.travel)
    ELSE [result |-> [success |-> FALSE,
                      message |-> <<"Unknown intent: ", intent>>],
          calls |-> <<>>]

\* The calls of a list of routes, in order.
RECURSIVE CallsOf(_)
CallsOf(subs) ==
    IF subs = <<>> THEN <<>> ELSE subs[1].calls \o CallsOf(Tail(subs))

\* (variant) the aggregate succeeds only when every item did
MultiRoute_AllSucceeded(meal, shop, trav) ==
    [result |-> [success |-> \A i \in 1..Len(meal \o shop \o trav) :
                                (meal \o shop \o trav)[i].result.success,
                 data |-> [i \in 1..Len(meal \o shop \o trav) |->
                              (meal \o shop \o trav)[i].result],
                 message |-> <<"Completed multi-domain request">>],
     calls |-> CallsOf(meal \o shop \o trav)]

\* The multi_domain branch, given the sub-routes that ran (each a sequence
\* of length <= 1), in the order meal, shopping, travel.
MultiRoute(meal, shop, trav) ==
    [result |-> [success |-> TRUE,
                 data |-> [i \in 1..Len(meal \o shop \o trav) |->
                              (meal \o shop \o trav)[i].result],
                 message |-> <<"Completed multi-domain request">>],
     calls |-> CallsOf(meal \o shop \o trav)]

route_to_agent(intent, context, oracle) ==
    IF intent = "multi_domain"
    THEN MultiRoute(
            IF Contains(Lower(Get(context, "message", <<>>)), WordMeal)
            THEN <<RouteOne("meal_planning", context, oracle)>> ELSE <<>>,
            IF Contains(Lower(Get(context, "message", <<>>)), WordShop)
            THEN <<RouteOne("shopping", context, oracle)>> ELSE <<>>,
            IF \/ Contains(Lower(Get(context, "message", <<>>)), WordTravel)
               \/ Contains(Lower(Get(context, "message", <<>>)), WordTrip)
            THEN <<RouteOne("travel", context, oracle)>> ELSE <<>>)
    ELSE RouteOne(intent, context, oracle)

----------------------------------------------------------------------------
(* Orchestrator: _generate_summary and process_message *)

CheckMark == "(U+2713) "

\* "\n".join(f"  - {s}" for s in summaries)
RECURSIVE JoinBullets(_)
JoinBullets(summaries) ==
    IF summaries = <<>> THEN <<>>
    ELSE IF Len(summaries) = 1 THEN <<"  - ">> \o summaries[1]
    ELSE <<"  - ">> \o summaries[1] \o <<"\n">> \o JoinBullets(Tail(summaries))

\* The messages of the successful items of a result list, in order.
RECURSIVE SuccessMessages(_)
SuccessMessages(results) ==
    IF results = <<>> THEN <<>>
    ELSE (IF results[1].success
          THEN <<Get(results[1], "message", <<>>)>> ELSE <<>>)
         \o SuccessMessages(Tail(results))

generate_summary(intent, result) ==
    IF ~Get(result, "success", FALSE)
    THEN Get(result, "message", <<"Failed to process request">>)
    ELSE IF intent = "meal_planning" /\ "data" \in DOMAIN result
    THEN <<CheckMark, "Created a ">> \o StrOf(result.data.duration_days)
         \o <<"-day meal plan with ">> \o StrOf(result.data.meals)
         \o <<" meals using ">> \o StrOf(result.data.total_recipes)
         \o <<" recipes.">>
    ELSE IF intent = "shopping" /\ "data" \in DOMAIN result
    THEN <<CheckMark, "Generated shopping list with ">>
         \o StrOf(result.data.items) \o <<" items across ">>
         \o StrOf(result.data.categories)
         \o <<" categories. Estimated total: $">>
         \o result.data.estimated_total
    ELSE IF intent = "travel" /\ "data" \in DOMAIN result
    THEN <<CheckMark, "Planned ">> \o StrOf(result.data.duration_days)
         \o <<"-day trip to ">> \o result.data.destination
         \o <<". Accommodation: ">> \o result.data.accommodation
         \o <<". Estimated cost: $">> \o result.data.estimated_cost
    ELSE IF intent = "multi_domain"
    THEN <<CheckMark, "Completed multiple tasks:\n">>
         \o JoinBullets(SuccessMessages(Get(result, "data", <<>>)))
    ELSE Get(result, "message", <<"Task completed">>)

\* An absent session_id argument (None)
NoSession == ""

\* (variant) the ambiguous branch logs the exchange like every other branch
AmbiguousUpdate_Logged(ss, session_id, message, t) ==
    update_session(ss, session_id,
                   << [role |-> "user", content |-> message],
                      [role |-> "assistant",
                       content |-> generate_clarifying_questions(message)] >>,
                   t)

\* What the ambiguous branch does to the Session Store: nothing.
AmbiguousUpdate(ss, session_id, message, t) == ss

\* (variant) the assistant message is stored before the user message
ExchangeMessages_Swapped(message, summary) ==
    << [role |-> "assistant", content |-> summary],
       [role |-> "user", content |-> message] >>

\* The list process_message hands to update_session.
ExchangeMessages(message, summary) ==
    << [role |-> "user", content |-> message],
       [role |-> "assistant", content |-> summary] >>

\* The tail of process_message: summary, session update and envelope, given
\* the router's answer.
Respond(ss1, session_id, created, message, intent, routed, summary, t1) ==
    [sessions |-> update_session(ss1, session_id,
                                 ExchangeMessages(message, summary), t1),
     envelope |-> [response |-> summary,
                   intent |-> intent,
                   data |-> IF "data" \in DOMAIN routed.result
                            THEN <<routed.result.data>> ELSE <<>>,
                   session_id |-> session_id],
     result |-> <<routed.result>>, calls |-> routed.calls,
     created |-> created]

\* The ambiguity check and the routing of process_message, given the intent.
Dispatch(ss1, session_id, created, user_id, preferences, message, intent, t1, oracle) ==
    IF intent = "ambiguous"
    THEN [sessions |-> AmbiguousUpdate(ss1, session_id, message, t1),
          envelope |-> [response |-> generate_clarifying_questions(message),
                        intent |-> "ambiguous",
                        requires_clarification |-> TRUE],
          result |-> <<>>, calls |-> <<>>, created |-> created]
    ELSE LET Routed(routed) ==
                 Respond(ss1, session_id, created, message, intent, routed,
                         generate_summary(intent, routed.result), t1)
         IN  Routed(route_to_agent(intent,
                                   [user_id |-> user_id,
                                    session_id |-> session_id,
                                    preferences |-> preferences,
                                    message |-> message],
                                   oracle))

\* (variant) a call on an existing session refreshes its preference snapshot
process_message_Refresh(ss, bank, fresh, user_id, message, session_id_arg, t0, t1, oracle) ==
    LET created    == (session_id_arg = NoSession)
        session_id == IF created THEN fresh ELSE session_id_arg
        preferences == get_all_preferences(bank, user_id)
        ss1 == IF created
               THEN create_session(ss, bank, fresh, user_id, t0, t0)
               ELSE IF session_id \in DOMAIN ss
               THEN [ss EXCEPT ![session_id].metadata =
                        Put(@, "preferences", preferences)]
               ELSE ss
    IN  Dispatch(ss1, session_id, created, user_id, preferences, message,
                 Cached(parse_intent_table, message, parse_intent(message)),
                 t1, oracle)

\* (variant) the agents get the preferences held in the session's metadata
process_message_SessionPrefs(ss, bank, fresh, user_id, message, session_id_arg, t0, t1, oracle) ==
    LET created    == (session_id_arg = NoSession)
        session_id == IF created THEN fresh ELSE session_id_arg
        ss1 == IF created
               THEN create_session(ss, bank, fresh, user_id, t0, t0)
               ELSE ss
        preferences == IF session_id \in DOMAIN ss1
                       THEN Get(ss1[session_id].metadata, "preferences", <<>>)
                       ELSE get_all_preferences(bank, user_id)
    IN  Dispatch(ss1, session_id, created, user_id, preferences, message,
                 Cached(parse_intent_table, message, parse_intent(message)),
                 t1, oracle)

\* process_message(user_id, message, session_id) with the session store ss,
\* the memory bank, the uuid a new session would get, the clock readings
\* t0 <= t1 (t0 on entry, t1 at the session update) and the agents' oracle.
\* Returns the session store it leaves, the envelope returned, the router's
\* result (none on the ambiguous path), the agent calls made and whether a
\* uuid was used.
process_message(ss, bank, fresh, user_id, message, session_id_arg, t0, t1, oracle) ==
    LET created    == (session_id_arg = NoSession)
        session_id == IF created THEN fresh ELSE session_id_arg
        ss1 == IF created
               THEN create_session(ss, bank, fresh, user_id, t0, t0)
               ELSE ss
        preferences == get_all_preferences(bank, user_id)
    IN  Dispatch(ss1, session_id, created, user_id, preferences, message,
                 Cached(parse_intent_table, message, parse_intent(message)),
                 t1, oracle)

----------------------------------------------------------------------------
(* State Store actions *)

NoCall == [op |-> "none", task_id |-> "", error |-> "none", existed |-> FALSE]

NoChatCall == [op |-> "none", session_id |-> "", message |-> <<>>,
               envelope |-> <<>>, result |-> <<>>, calls |-> <<>>]

Init ==
    /\ now = 0
    /\ stateFiles = <<>>
    /\ indexFiles = <<>>
    /\ lastStore = NoCall
    /\ sessions = <<>>
    /\ uuidCount = 0
    /\ userFiles = <<>>
    /\ lastCall = NoChatCall
    /\ inflight = <<>>

Tick ==
    /\ now < MaxTime
    /\ now' = now + 1

SaveState(task_id, state) ==
    LET r == save_state(Store, task_id, state, now)
    IN  /\ stateFiles' = r.files
        /\ indexFiles' = r.idx
        /\ lastStore' = [op |-> "save_state", task_id |-> task_id,
                         error |-> r.error,
                         existed |-> task_exists(stateFiles, task_id)]

DeleteState(task_id) ==
    LET r == delete_state(Store, task_id)
    IN  /\ stateFiles' = r.files
        /\ indexFiles' = r.idx
        /\ lastStore' = [op |-> "delete_state", task_id |-> task_id,
                         error |-> r.error,
                         existed |-> task_exists(stateFiles, task_id)]

UpdateTaskStatus(task_id, status) ==
    LET r == update_task_status(Store, task_id, status, now)
    IN  /\ stateFiles' = r.files
        /\ indexFiles' = r.idx
        /\ lastStore' = [op |-> "update_task_status", task_id |-> task_id,
                         error |-> r.error,
                         existed |-> task_exists(stateFiles, task_id)]

StoreTick == Tick /\ UNCHANGED <<storeVars, chatVars, inflight>>

StoreSave ==
    \E t \in Tasks, s \in CallerStates :
        SaveState(t, s) /\ UNCHANGED <<now, chatVars, inflight>>

StoreDelete == \E t \in Tasks : DeleteState(t) /\ UNCHANGED <<now, chatVars, inflight>>

StoreUpdate ==
    \E t \in Tasks, s \in Statuses :
        UpdateTaskStatus(t, s) /\ UNCHANGED <<now, chatVars, inflight>>

StoreNext == StoreTick \/ StoreSave \/ StoreDelete \/ StoreUpdate

vars == <<now, stateFiles, indexFiles, lastStore,
          sessions, uuidCount, userFiles, lastCall, inflight>>

StoreSpec == Init /\ [][StoreNext]_vars

----------------------------------------------------------------------------
(* Session Store and Orchestrator actions *)

\* uuid4() never returns a value twice: the k-th draw is Uuids[k].
Uuids == <<"s1", "s2">>

\* The session_id arguments callers pass: ids of live, closed and never
\* created sessions.
SessionIds == {Uuids[i] : i \in 1..Len(Uuids)}

ChatUsers == {"u1"}


ChatMessages == {MsgHello, MsgMeal5, MsgBuy}

Oracles == [meal : BOOLEAN, travel : {TRUE}]

\* The message lists a caller of update_session passes.
CallerMessageLists ==
    { << [role |-> "user", content |-> <<"m1">>],
         [role |-> "assistant", content |-> <<"m2">>] >> }

\* The number of messages held by the sessions with an id in ids.
RECURSIVE StoredMessages(_)
StoredMessages(ids) ==
    IF ids = {} THEN 0
    ELSE LET id == CHOOSE x \in ids : TRUE
         IN  Len(sessions[id].messages) + StoredMessages(ids \ {id})

\* The Session Store has room for k more messages in session_id.
Room(session_id, k) ==
    session_id \in DOMAIN sessions =>
        StoredMessages(DOMAIN sessions) + k <= MaxMsgs

ChatCall(op, session_id) ==
    [op |-> op, session_id |-> session_id, message |-> <<>>,
     envelope |-> <<>>, result |-> <<>>, calls |-> <<>>]

CreateSession(user_id, d) ==
    /\ uuidCount < Len(Uuids)
    /\ now + d <= MaxTime
    /\ sessions' = create_session(sessions, userFiles, Uuids[uuidCount + 1],
                                  user_id, now, now + d)
    /\ uuidCount' = uuidCount + 1
    /\ now' = now + d
    /\ lastCall' = ChatCall("create_session", Uuids[uuidCount + 1])
    /\ UNCHANGED userFiles

UpdateSession(session_id, messages) ==
    /\ Room(session_id, Len(messages))
    /\ sessions' = update_session(sessions, session_id, messages, now)
    /\ lastCall' = ChatCall("update_session", session_id)
    /\ UNCHANGED <<now, uuidCount, userFiles>>

AddMessage(session_id, role, content) ==
    /\ Room(session_id, 1)
    /\ sessions' = add_message(sessions, session_id, role, content, now)
    /\ lastCall' = ChatCall("add_message", session_id)
    /\ UNCHANGED <<now, uuidCount, userFiles>>

UpdateSessionMetadata(session_id, key, value) ==
    /\ sessions' = update_session_metadata(sessions, session_id, key, value, now)
    /\ lastCall' = ChatCall("update_session_metadata", session_id)
    /\ UNCHANGED <<now, uuidCount, userFiles>>

CloseSession(session_id) ==
    /\ sessions' = close_session(sessions, session_id)
    /\ lastCall' = ChatCall("close_session", session_id)
    /\ UNCHANGED <<now, uuidCount, userFiles>>

SavePreference(user_id, key, value) ==
    /\ userFiles' = save_preference(userFiles, user_id, key, value)
    /\ lastCall' = ChatCall("save_preference", "")
    /\ UNCHANGED <<now, uuidCount, sessions>>

ProcessMessage(user_id, message, session_id_arg, d, oracle) ==
    /\ session_id_arg = NoSession => uuidCount < Len(Uuids)
    /\ now + d <= MaxTime
    /\ \E r \in {process_message(sessions, userFiles,
                                  IF uuidCount < Len(Uuids)
                                  THEN Uuids[uuidCount + 1] ELSE "",
                                  user_id, message, session_id_arg,
                                  now, now + d, oracle)} :
          /\ r.envelope.intent # "ambiguous" => Room(session_id_arg, 2)
          /\ sessions' = r.sessions
          /\ uuidCount' = IF r.created THEN uuidCount + 1 ELSE uuidCount
          /\ now' = now + d
          /\ lastCall' = [op |-> "process_message",
                          session_id |-> session_id_arg,
                          message |-> message,
                          envelope |-> <<r.envelope>>,
                          result |-> r.result, calls |-> r.calls]
          /\ UNCHANGED userFiles

ChatTick ==
    /\ Tick
    /\ lastCall' = ChatCall("tick", "")
    /\ UNCHANGED <<storeVars, sessions, uuidCount, userFiles, inflight>>

ChatCreate ==
    \E u \in ChatUsers, d \in {0, 1} : CreateSession(u, d) /\ UNCHANGED <<storeVars, inflight>>

ChatUpdate ==
    \E id \in SessionIds, ms \in CallerMessageLists :
        UpdateSession(id, ms) /\ UNCHANGED <<storeVars, inflight>>

ChatAdd ==
    \E id \in SessionIds :
        AddMessage(id, "user", <<"hi">>) /\ UNCHANGED <<storeVars, inflight>>

ChatMetadata ==
    \E id \in SessionIds :
        UpdateSessionMetadata(id, "topic", "meals") /\ UNCHANGED <<storeVars, inflight>>

ChatClose == \E id \in SessionIds : CloseSession(id) /\ UNCHANGED <<storeVars, inflight>>

ChatSavePreference ==
    \E u \in ChatUsers :
        SavePreference(u, "meals_per_day", 2) /\ UNCHANGED <<storeVars, inflight>>

ChatProcess ==
    \E u \in ChatUsers, m \in ChatMessages, id \in SessionIds \cup {NoSession},
       d \in {0, 1}, o \in Oracles :
        ProcessMessage(u, m, id, d, o) /\ UNCHANGED <<storeVars, inflight>>

ChatNext ==
    \/ ChatTick \/ ChatCreate \/ ChatUpdate \/ ChatAdd \/ ChatMetadata
    \/ ChatClose \/ ChatSavePreference \/ ChatProcess

ChatSpec == Init /\ [][ChatNext]_vars

----------------------------------------------------------------------------
(* State Store properties *)

\* Number of entries of an index listing that carry task_id.
Count(index, task_id) ==
    Cardinality({i \in 1..Len(index) : index[i].task_id = task_id})

IndexTasks(idx, u) ==
    {list_paused_tasks(idx, u)[i].task_id :
        i \in 1..Len(list_paused_tasks(idx, u))}

RecordTasks(files, u) ==
    {t \in DOMAIN files : Get(files[t], "user_id", "") = u}

\* C1: for every user u the task_ids of u's index are exactly the task_ids
\* whose stored record has user_id = u, and every index entry carries the
\* status and agent_type of its record (defaults 'paused' and 'unknown').
C1_IndexIsProjection ==
    \A u \in Users :
        /\ IndexTasks(indexFiles, u) = RecordTasks(stateFiles, u)
        /\ \A i \in 1..Len(list_paused_tasks(indexFiles, u)) :
              LET e == list_paused_tasks(indexFiles, u)[i]
              IN  e.task_id \in DOMAIN stateFiles =>
                    /\ e.status = Get(stateFiles[e.task_id], "status", "paused")
                    /\ e.agent_type =
                          Get(stateFiles[e.task_id], "agent_type", "unknown")

\* C2: a save_state(t, state) with state.user_id = u leaves exactly one
\* entry for t in list_paused_tasks(u), however often t was saved before;
\* a delete_state(t) that follows the save leaves none.
C2_SaveUpsertsDeleteRemoves ==
    [][ /\ \A t \in Tasks, s \in CallerStates :
              ("user_id" \in DOMAIN s /\ SaveState(t, s)) =>
                  Count(list_paused_tasks(indexFiles', s.user_id), t) = 1
        /\ \A t \in Tasks :
              ( /\ lastStore.op = "save_state"
                /\ lastStore.error = "none"
                /\ lastStore.task_id = t
                /\ DeleteState(t) ) =>
                  Count(list_paused_tasks(indexFiles', stateFiles[t].user_id),
                        t) = 0
      ]_vars

\* A task saved twice for u1 and listed once.
C2_Witness_Save ==
    /\ lastStore.op = "save_state" /\ lastStore.error = "none"
    /\ lastStore.task_id = "t1"
    /\ "t1" \in DOMAIN stateFiles /\ stateFiles["t1"].user_id = "u1"
    /\ stateFiles["t1"].saved_at = 1
    /\ Len(list_paused_tasks(indexFiles, "u1")) = 2
    /\ list_paused_tasks(indexFiles, "u1")[1].task_id = "t1"
    /\ list_paused_tasks(indexFiles, "u1")[1].saved_at = 1
    /\ list_paused_tasks(indexFiles, "u1")[2].saved_at = 0

FrameFields == {"current_step", "total_steps", "user_id", "agent_type", "context"}

\* C3: update_task_status(t, s) on a stored task sets status to s and
\* updated_at to the time of the call and keeps current_step, total_steps,
\* user_id, agent_type and context as they were (present or absent); on a
\* task with no record it changes neither the records nor the indexes.
C3_UpdateTaskStatusFrame ==
    [][ \A t \in Tasks, s \in Statuses :
          UpdateTaskStatus(t, s) =>
            IF t \in DOMAIN stateFiles
            THEN /\ t \in DOMAIN stateFiles'
                 /\ stateFiles'[t].status = s
                 /\ "updated_at" \in DOMAIN stateFiles'[t]
                 /\ stateFiles'[t].updated_at = now
                 /\ \A f \in FrameFields :
                       /\ (f \in DOMAIN stateFiles'[t]) <=> (f \in DOMAIN stateFiles[t])
                       /\ f \in DOMAIN stateFiles[t] =>
                             stateFiles'[t][f] = stateFiles[t][f]
            ELSE /\ stateFiles' = stateFiles
                 /\ indexFiles' = indexFiles
      ]_vars

\* update_task_status has just changed the status of a running task.
C3_Witness ==
    /\ lastStore.op = "update_task_status" /\ lastStore.task_id = "t1"
    /\ lastStore.existed
    /\ "t1" \in DOMAIN stateFiles
    /\ stateFiles["t1"].status = "completed"
    /\ stateFiles["t1"].context = "ctxA"
    /\ stateFiles["t1"].updated_at = 1

\* C4: save_state with a state that has no user_id raises the validation
\* error and leaves every record and every index as it was.
C4_SaveWithoutUserRejected ==
    [][ \A t \in Tasks, s \in CallerStates :
          ("user_id" \notin DOMAIN s /\ SaveState(t, s)) =>
              /\ lastStore'.error = "ValueError"
              /\ stateFiles' = stateFiles
              /\ indexFiles' = indexFiles
      ]_vars

\* The rejected save named a task that has a stored record.
C4_Witness ==
    /\ lastStore.op = "save_state" /\ lastStore.error = "ValueError"
    /\ lastStore.task_id \in DOMAIN stateFiles

\* C5: delete_state of a task with no record raises nothing and changes
\* nothing; a second delete_state of a task leaves the store the first one
\* left, with the record gone and its entry gone from the index of the user
\* the record named.
C5_DeleteIdempotent ==
    /\ [][ \A t \in Tasks :
              (t \notin DOMAIN stateFiles /\ DeleteState(t)) =>
                  /\ lastStore'.error = "none"
                  /\ stateFiles' = stateFiles
                  /\ indexFiles' = indexFiles
          ]_vars
    /\ [](\A t \in Tasks :
            LET once  == delete_state(Store, t)
                twice == delete_state([files |-> once.files, idx |-> once.idx], t)
            IN  /\ once.error = "none" /\ twice.error = "none"
                /\ twice.files = once.files
                /\ twice.idx = once.idx
                /\ t \notin DOMAIN once.files
                /\ t \in DOMAIN stateFiles =>
                      Count(list_paused_tasks(once.idx, stateFiles[t].user_id),
                            t) = 0)

\* delete_state has just run on a task that had no record while the other
\* task is stored and indexed.
C5_Witness ==
    /\ lastStore.op = "delete_state" /\ lastStore.task_id = "t1"
    /\ lastStore.error = "none" /\ ~lastStore.existed
    /\ "t1" \notin DOMAIN stateFiles
    /\ "t2" \in DOMAIN stateFiles
    /\ "u1" \in DOMAIN indexFiles /\ indexFiles["u1"] # <<>>

----------------------------------------------------------------------------
(* Session Store and Orchestrator properties *)

IsPrefix(a, b) == Len(a) <= Len(b) /\ SubSeq(b, 1, Len(a)) = a

\* The last call was process_message.
Processed(call) == call.op = "process_message"

Envelope(call) == call.envelope[1]

IntentOf(message) == Cached(parse_intent_table, message, parse_intent(message))

\* The messages a call hands to the history of its session: the caller's
\* list, the one Message of add_message, the exchange of process_message.
Handed(call, t) ==
    IF call.op = "add_message" THEN <<NewMessage("user", <<"hi">>, t)>>
    ELSE IF Processed(call) /\ IntentOf(call.message) # "ambiguous"
    THEN << [role |-> "user", content |-> call.message],
            [role |-> "assistant", content |-> Envelope(call).response] >>
    ELSE <<>>

\* C6: a session's history only grows at its end: over every step the old
\* history is a prefix of the new one, and update_session, add_message and
\* process_message leave the old history followed by exactly the messages of
\* that call, in the order given.
C6_HistoryAppendOnly ==
    [][ \A id \in (DOMAIN sessions) \cap (DOMAIN sessions') :
          /\ IsPrefix(sessions[id].messages, sessions'[id].messages)
          /\ (lastCall'.op = "update_session" /\ lastCall'.session_id = id) =>
                \E ms \in CallerMessageLists :
                    sessions'[id].messages = sessions[id].messages \o ms
          /\ (lastCall'.op \in {"add_message", "process_message"}
              /\ lastCall'.session_id = id) =>
                sessions'[id].messages =
                    sessions[id].messages \o Handed(lastCall', now)
          /\ lastCall'.session_id # id =>
                sessions'[id].messages = sessions[id].messages
      ]_vars

\* Three calls on one session: add_message, then process_message.
C6_Witness ==
    /\ Processed(lastCall) /\ lastCall.session_id = "s1"
    /\ "s1" \in DOMAIN sessions
    /\ Len(sessions["s1"].messages) = 3
    /\ sessions["s1"].messages[1].content = <<"hi">>
    /\ sessions["s1"].messages[2].content = MsgMeal5
    /\ sessions["s1"].messages[3].role = "assistant"

MutatingOps == {"update_session", "add_message", "update_session_metadata"}

\* C7: over every step a session's updated_at does not decrease, it is never
\* before created_at, and a call to update_session, add_message,
\* update_session_metadata or a non-ambiguous process_message on a session
\* leaves updated_at at the clock reading of that call; a session that a
\* step changed carries the clock reading of the step.
C7_UpdatedAtMonotone ==
    [][ \A id \in DOMAIN sessions' :
          /\ sessions'[id].created_at <= sessions'[id].updated_at
          /\ id \in DOMAIN sessions =>
               /\ sessions[id].updated_at <= sessions'[id].updated_at
               /\ sessions'[id] # sessions[id] =>
                     sessions'[id].updated_at = now'
               /\ (lastCall'.session_id = id
                   /\ \/ lastCall'.op \in MutatingOps
                      \/ /\ Processed(lastCall')
                         /\ IntentOf(lastCall'.message) # "ambiguous") =>
                     sessions'[id].updated_at = now'
      ]_vars

\* A session created at 0 and given a message and a metadata key at 1.
C7_Witness ==
    /\ lastCall.op = "update_session_metadata" /\ lastCall.session_id = "s1"
    /\ "s1" \in DOMAIN sessions
    /\ sessions["s1"].created_at = 0
    /\ sessions["s1"].updated_at = 1
    /\ "topic" \in DOMAIN sessions["s1"].metadata
    /\ sessions["s1"].messages # <<>>

\* C8: the envelope of every process_message call that was given no
\* session_id, or the id of a session in the store, has a session_id, and
\* that id names a session in the store.
C8_EnvelopeHasSessionId ==
    ( /\ Processed(lastCall)
      /\ \/ lastCall.session_id = NoSession
         \/ lastCall.session_id \in DOMAIN sessions ) =>
        /\ "session_id" \in DOMAIN Envelope(lastCall)
        /\ Envelope(lastCall).session_id \in DOMAIN sessions

\* C9: a process_message call whose message classifies as ambiguous returns
\* the clarification text with intent 'ambiguous', makes no agent call, and
\* leaves the session it was given as it was.
C9_AmbiguousLeavesSession ==
    [][ (Processed(lastCall') /\ IntentOf(lastCall'.message) = "ambiguous") =>
          /\ Envelope(lastCall').intent = "ambiguous"
          /\ Envelope(lastCall').response =
                generate_clarifying_questions(lastCall'.message)
          /\ lastCall'.calls = <<>>
          /\ lastCall'.result = <<>>
          /\ \A id \in DOMAIN sessions :
                id \in DOMAIN sessions' /\ sessions'[id] = sessions[id]
      ]_vars

\* An ambiguous message was sent on a session that holds messages, after
\* the clock had moved on.
C9_Witness ==
    /\ Processed(lastCall) /\ lastCall.message = MsgHello
    /\ lastCall.session_id \in DOMAIN sessions
    /\ sessions[lastCall.session_id].messages # <<>>
    /\ sessions[lastCall.session_id].updated_at < now

\* C10: a process_message call with a non-ambiguous message on a session in
\* the store appends exactly the user message and then the assistant message
\* whose content is the returned response; when the route failed that
\* response is the router's message.
C10_ExchangeAppended ==
    [][ \A id \in DOMAIN sessions :
          ( /\ Processed(lastCall') /\ lastCall'.session_id = id
            /\ IntentOf(lastCall'.message) # "ambiguous" ) =>
              /\ id \in DOMAIN sessions'
              /\ sessions'[id].messages =
                    sessions[id].messages \o
                    << [role |-> "user", content |-> lastCall'.message],
                       [role |-> "assistant",
                        content |-> Envelope(lastCall').response] >>
              /\ lastCall'.result # <<>>
              /\ ~lastCall'.result[1].success =>
                    Envelope(lastCall').response = lastCall'.result[1].message
      ]_vars

\* The meal agent raised during a call on a session that held a message.
C10_Witness ==
    /\ Processed(lastCall) /\ lastCall.session_id = "s1"
    /\ "s1" \in DOMAIN sessions
    /\ Len(sessions["s1"].messages) = 3
    /\ lastCall.calls # <<>>
    /\ ~lastCall.result[1].success
    /\ sessions["s1"].messages[3].content = lastCall.result[1].message

\* C11: a process_message call given a session_id that names no session in
\* the store is reported as an error: it returns no envelope, or an envelope
\* that carries an error, and it hands the message to no agent.
C11_UnknownSessionReported ==
    ( /\ Processed(lastCall)
      /\ lastCall.session_id # NoSession
      /\ lastCall.session_id \notin DOMAIN sessions ) =>
        /\ \/ lastCall.envelope = <<>>
           \/ "error" \in DOMAIN Envelope(lastCall)
        /\ lastCall.calls = <<>>

----------------------------------------------------------------------------
(* The classifier on its own: _parse_intent applied to messages put        *)
(* together from fragments.                                                *)

\* Pieces of messages: keywords of each set in lower, upper and mixed case,
\* words that hold a keyword inside them, pieces that form a keyword only
\* when joined, and filler.
ClassifyFragments ==
    { <<"D", "i", "n", "n", "e", "r">>,
      <<"g", "r", "e", "a", "t">>,
      <<"B", "U", "Y">>,
      <<"r", "e", "s", "t", "o", "r", "e", "d">>,
      <<"t", "r", "i">>,
      <<"p", " ">>,
      <<"H", "o", "t", "e", "l">>,
      <<"o", "k", " ">> }

RECURSIVE Concat(_)
Concat(parts) ==
    IF parts = <<>> THEN <<>> ELSE parts[1] \o Concat(Tail(parts))

ClassifyMessages ==
    {Concat(ps) : ps \in UNION {[1..n -> ClassifyFragments] : n \in 0..MaxFragments}}

\* The state before a call: the message is chosen, nothing else has happened.
ClassifyInit ==
    /\ now = 0
    /\ stateFiles = <<>>
    /\ indexFiles = <<>>
    /\ lastStore = NoCall
    /\ sessions = <<>>
    /\ uuidCount = 0
    /\ userFiles = <<>>
    /\ inflight = <<>>
    /\ \E m \in ClassifyMessages :
          lastCall = [op |-> "input", session_id |-> "", message |-> m,
                      envelope |-> <<>>, result |-> <<>>, calls |-> <<>>]

Classify ==
    /\ lastCall.op = "input"
    /\ lastCall' = [lastCall EXCEPT !.op = "parse_intent",
                                    !.result = <<parse_intent(lastCall.message)>>]
    /\ UNCHANGED <<now, storeVars, sessions, uuidCount, userFiles, inflight>>

ClassifyNext == Classify

ClassifySpec == ClassifyInit /\ [][ClassifyNext]_vars

Intents == {"meal_planning", "shopping", "travel", "multi_domain", "ambiguous"}

\* Some keyword of words is a slice of the lower-cased message.
Present(message, words) ==
    \E w \in words : \E i \in 1..Len(message) :
        /\ i + Len(w) - 1 <= Len(message)
        /\ SubSeq(Lower(message), i, i + Len(w) - 1) = w

PresentDomains(message) ==
    (IF Present(message, MealWords) THEN {"meal_planning"} ELSE {})
    \cup (IF Present(message, ShoppingWords) THEN {"shopping"} ELSE {})
    \cup (IF Present(message, TravelWords) THEN {"travel"} ELSE {})

\* C12: the intent returned for a message is fixed by which keyword sets are
\* present in the lower-cased message: none gives 'ambiguous', exactly one
\* gives that domain, two or three give 'multi_domain'; it is one of the five
\* intents.
C12_ClassifyByPresence ==
    lastCall.op = "parse_intent" =>
        /\ lastCall.result[1] \in Intents
        /\ PresentDomains(lastCall.message) = {} =>
              lastCall.result[1] = "ambiguous"
        /\ Cardinality(PresentDomains(lastCall.message)) = 1 =>
              lastCall.result[1] \in PresentDomains(lastCall.message)
        /\ Cardinality(PresentDomains(lastCall.message)) >= 2 =>
              lastCall.result[1] = "multi_domain"

\* "tri" + "p " + "BUY": a travel keyword formed by joining two pieces and an
\* upper-case shopping keyword, classified as multi_domain.
C12_Witness ==
    /\ lastCall.op = "parse_intent"
    /\ lastCall.message = <<"t", "r", "i", "p", " ", "B", "U", "Y">>
    /\ lastCall.result = <<"multi_domain">>

----------------------------------------------------------------------------
(* The router on its own: route_to_agent called with every intent, and     *)
(* process_message on one session, with either agent returning or raising. *)

RouterIntents == Intents \cup {"billing"}

RouterOracles == [meal : BOOLEAN, travel : BOOLEAN]

RouterProcessMessages == {MsgMeal5, MsgBuy, MsgAll}

\* The context process_message builds for user u1.
RouterContext(message) ==
    [user_id |-> "u1", session_id |-> Uuids[1],
     preferences |-> get_all_preferences(userFiles, "u1"),
     message |-> message]

RouterRoute ==
    \E intent \in RouterIntents, m \in KnownMessages, o \in RouterOracles :
      \E r \in {route_to_agent(intent, RouterContext(m), o)} :
        /\ lastCall' = [op |-> "route_to_agent", session_id |-> "",
                        message |-> m, envelope |-> <<>>,
                        result |-> <<r.result>>, calls |-> r.calls,
                        intent |-> intent, oracle |-> o]
        /\ UNCHANGED <<now, storeVars, sessions, uuidCount, userFiles, inflight>>

RouterProcess ==
    \E m \in RouterProcessMessages, id \in {NoSession, Uuids[1]},
       o \in RouterOracles :
      /\ id = NoSession => uuidCount = 0
      /\ id \in DOMAIN sessions =>
            Len(sessions[id].messages) < 2 * MaxExchanges
      /\ \E r \in {process_message(sessions, userFiles, Uuids[1], "u1", m, id,
                                   now, now, o)} :
            /\ sessions' = r.sessions
            /\ uuidCount' = IF r.created THEN uuidCount + 1 ELSE uuidCount
            /\ lastCall' = [op |-> "process_message", session_id |-> id,
                            message |-> m, envelope |-> <<r.envelope>>,
                            result |-> r.result, calls |-> r.calls,
                            intent |-> r.envelope.intent, oracle |-> o]
            /\ UNCHANGED <<now, storeVars, userFiles, inflight>>

RouterNext == RouterRoute \/ RouterProcess

RouterSpec == Init /\ [][RouterNext]_vars

Routed(call) == call.op = "route_to_agent"

\* The agent call c, made under the oracle o, raised.
AgentRaised(c, o) ==
    IF c.agent = "meal"
    THEN generate_meal_plan(c.user_id, c.days, c.preferences, o.meal).raised
    ELSE plan_trip(c.user_id, c.destination, c.dates, c.budget,
                   c.preferences, o.travel).raised

IsRouteResult(result) ==
    /\ {"success", "message"} \subseteq DOMAIN result
    /\ result.success \in BOOLEAN

\* C13: route_to_agent returns a result with success and message for every
\* intent and every behaviour of the agents; when the one agent it called
\* raised, success is false and the message is the error text; and
\* process_message then returns an envelope whose response is that message.
C13_AgentFailureContained ==
    /\ (Routed(lastCall) \/ Processed(lastCall)) =>
          /\ lastCall.result # <<>>
          /\ IsRouteResult(lastCall.result[1])
          /\ ( /\ lastCall.intent \in {"meal_planning", "travel"}
               /\ lastCall.calls # <<>>
               /\ AgentRaised(lastCall.calls[1], lastCall.oracle) ) =>
                 /\ ~lastCall.result[1].success
                 /\ lastCall.result[1].message[1] = "Error processing request: "
          /\ lastCall.intent = "multi_domain" =>
                \A i \in 1..Len(lastCall.result[1].data) :
                    IsRouteResult(lastCall.result[1].data[i])
    /\ Processed(lastCall) =>
          /\ lastCall.envelope # <<>>
          /\ "response" \in DOMAIN Envelope(lastCall)
          /\ ~lastCall.result[1].success =>
                Envelope(lastCall).response = lastCall.result[1].message

\* process_message returned an envelope after the meal agent raised.
C13_Witness ==
    /\ Processed(lastCall) /\ lastCall.message = MsgMeal5
    /\ lastCall.calls # <<>> /\ ~lastCall.oracle.meal
    /\ ~lastCall.result[1].success
    /\ Envelope(lastCall).response[1] = "Error processing request: "

\* C14: routing the intent 'shopping' returns success = false with a message
\* that holds 'meal plan first', and no route ever calls the shopping agent:
\* also on a session in which an earlier call produced a meal plan.
C14_ShoppingAlwaysRefused ==
    (Routed(lastCall) \/ Processed(lastCall)) =>
        /\ \A i \in 1..Len(lastCall.calls) :
              lastCall.calls[i].agent # "shopping"
        /\ lastCall.intent = "shopping" =>
              /\ ~lastCall.result[1].success
              /\ \E k \in 1..Len(lastCall.result[1].message) :
                    lastCall.result[1].message[k] = "meal plan first"
              /\ lastCall.calls = <<>>

\* "buy groceries" sent on the session whose first exchange produced a meal
\* plan.
C14_Witness ==
    /\ Processed(lastCall) /\ lastCall.message = MsgBuy
    /\ lastCall.session_id \in DOMAIN sessions
    /\ Len(sessions[lastCall.session_id].messages) = 4
    /\ sessions[lastCall.session_id].messages[1].content = MsgMeal5
    /\ sessions[lastCall.session_id].messages[2].content[1] = CheckMark
    /\ sessions[lastCall.session_id].messages[3].content = MsgBuy
    /\ ~lastCall.result[1].success

\* The sub-routes a multi_domain message asks for, in the router's order.
Wanted(message) ==
    (IF Present(message, {WordMeal}) THEN <<"meal_planning">> ELSE <<>>)
    \o (IF Present(message, {WordShop}) THEN <<"shopping">> ELSE <<>>)
    \o (IF Present(message, {WordTravel, WordTrip}) THEN <<"travel">> ELSE <<>>)

\* The kind of sub-route an item of the aggregate came from.
ItemKind(item) ==
    IF "data" \in DOMAIN item
    THEN (IF item.data.type = "MealPlan" THEN "meal_planning" ELSE "travel")
    ELSE IF item.message[1] = "Please generate a " THEN "shopping"
    ELSE IF item.message[1] = "Please specify a destination for your trip"
    THEN "travel"
    ELSE "raised"

AgentOf(intent) == IF intent = "meal_planning" THEN "meal" ELSE "travel"

\* C15: a multi_domain route returns success = true with one item per
\* sub-route the message asks for, in the order meal, shopping, travel; the
\* agents are called in that order; an item whose agent raised has success =
\* false.
C15_MultiDomainOrdered ==
    (Routed(lastCall) /\ lastCall.intent = "multi_domain") =>
        LET result == lastCall.result[1]
            wanted == Wanted(lastCall.message)
            called == SelectSeq(wanted, LAMBDA w : w # "shopping")
        IN  /\ result.success = TRUE
            /\ Len(result.data) = Len(wanted)
            /\ \A i \in 1..Len(wanted) :
                  /\ ItemKind(result.data[i]) \in {wanted[i], "raised"}
                  /\ ItemKind(result.data[i]) = "raised" =>
                        ~result.data[i].success
            /\ Len(lastCall.calls) <= Len(called)
            /\ \A i, j \in 1..Len(lastCall.calls) :
                  (i < j /\ lastCall.calls[i].agent = "travel") =>
                      lastCall.calls[j].agent # "meal"
            /\ \A i \in 1..Len(lastCall.calls) :
                  AgentRaised(lastCall.calls[i], lastCall.oracle) =>
                      \E k \in 1..Len(wanted) :
                          /\ AgentOf(wanted[k]) = lastCall.calls[i].agent
                          /\ wanted[k] # "shopping"
                          /\ ~result.data[k].success

\* All three sub-routes ran and every item failed, the aggregate succeeded.
C15_Witness ==
    /\ Routed(lastCall) /\ lastCall.intent = "multi_domain"
    /\ lastCall.message = MsgAll
    /\ Len(lastCall.result[1].data) = 3
    /\ \A i \in 1..3 : ~lastCall.result[1].data[i].success
    /\ Len(lastCall.calls) = 2
    /\ lastCall.calls[1].agent = "meal" /\ lastCall.calls[2].agent = "travel"
    /\ lastCall.result[1].success

----------------------------------------------------------------------------
(* Preferences: the snapshot of a session and what the agents are given    *)

SnapshotOf(session) == Get(session.metadata, "preferences", <<>>)

\* C16: a new session's metadata holds the preferences its user has at that
\* moment, and a later save_preference or process_message leaves the
\* metadata preferences of every session as they were.
C16_SnapshotFrozen ==
    [][ \A id \in DOMAIN sessions' :
          /\ id \notin DOMAIN sessions =>
                /\ "preferences" \in DOMAIN sessions'[id].metadata
                /\ SnapshotOf(sessions'[id]) =
                      get_all_preferences(userFiles, sessions'[id].user_id)
          /\ ( /\ id \in DOMAIN sessions
               /\ lastCall'.op \in {"save_preference", "process_message"} ) =>
                SnapshotOf(sessions'[id]) = SnapshotOf(sessions[id])
      ]_vars

\* A session created before the user's preference was saved has just taken
\* an exchange and still holds the empty snapshot.
C16_Witness ==
    /\ Processed(lastCall) /\ lastCall.session_id \in DOMAIN sessions
    /\ sessions[lastCall.session_id].messages # <<>>
    /\ lastCall.calls # <<>>
    /\ SnapshotOf(sessions[lastCall.session_id]) = <<>>
    /\ get_all_preferences(userFiles, "u1") # <<>>

\* C17: every agent call made by process_message carries the preferences
\* the memory bank holds for the user at that call.
C17_AgentsGetCurrentPreferences ==
    Processed(lastCall) =>
        \A i \in 1..Len(lastCall.calls) :
            lastCall.calls[i].preferences =
                get_all_preferences(userFiles, lastCall.calls[i].user_id)

\* The meal agent was given meals_per_day = 2, saved after the session was
\* created with an empty snapshot.
C17_Witness ==
    /\ Processed(lastCall) /\ lastCall.session_id \in DOMAIN sessions
    /\ lastCall.calls # <<>>
    /\ "meals_per_day" \in DOMAIN lastCall.calls[1].preferences
    /\ lastCall.calls[1].preferences.meals_per_day = 2
    /\ SnapshotOf(sessions[lastCall.session_id]) # lastCall.calls[1].preferences
    /\ lastCall.result[1].success
    /\ lastCall.result[1].data.meals = 10

----------------------------------------------------------------------------
(* State Store: listing, validation and the save/load round trip           *)

\* C18: every entry list_paused_tasks returns for a user has status
\* 'paused'.
C18_ListedTasksArePaused ==
    \A u \in Users :
        \A i \in 1..Len(list_paused_tasks(indexFiles, u)) :
            list_paused_tasks(indexFiles, u)[i].status = "paused"

\* The State Store called with states and statuses outside the TaskState
\* invariant as well as inside it, on one task.
OutOfRangeStates ==
    { [user_id |-> "u1", agent_type |-> "meal", status |-> "running",
       current_step |-> 5, total_steps |-> 3, context |-> "ctxA"],
      [user_id |-> "u1", agent_type |-> "meal", status |-> "running",
       current_step |-> 0, total_steps |-> 0, context |-> "ctxA"] }

\* TaskStatus
TaskStatuses == {"running", "paused", "completed", "failed"}

ValidationSave ==
    \E s \in CallerStates \cup OutOfRangeStates :
        SaveState("t1", s) /\ UNCHANGED <<now, chatVars, inflight>>

ValidationUpdate ==
    \E s \in TaskStatuses \cup {"archived"} :
        UpdateTaskStatus("t1", s) /\ UNCHANGED <<now, chatVars, inflight>>

ValidationNext == StoreTick \/ ValidationSave \/ ValidationUpdate \/ StoreDelete

ValidationSpec == Init /\ [][ValidationNext]_vars

\* C19: every stored record has 0 <= current_step <= total_steps,
\* total_steps > 0 and a status among running, paused, completed, failed
\* (a record stored without a status counts as paused, as in the index).
C19_RecordsValid ==
    \A t \in DOMAIN stateFiles :
        /\ 0 <= stateFiles[t].current_step
        /\ stateFiles[t].current_step <= stateFiles[t].total_steps
        /\ stateFiles[t].total_steps > 0
        /\ Get(stateFiles[t], "status", "paused") \in TaskStatuses

----------------------------------------------------------------------------
(* route_to_agent as a function of its arguments: the intent, the message  *)
(* and what else the caller put in the context are chosen first, and one   *)
(* call is made.                                                           *)

\* Pieces of messages that name a number of days.
DaysFragments ==
    { <<"0">>, <<"5">>, <<"1", "2">>, <<" ">>, <<"d", "a", "y", "s">>,
      <<"-", "d", "a", "y">>, <<"f", "o", "r", " ">>, <<"w", "e", "e", "k">> }

\* Keys a caller may add to the context of a travel route.
ContextOverrides ==
    { <<>>, [dates |-> <<10, 12>>], [budget |-> 500],
      [dates |-> <<10, 12>>, budget |-> 500] }

\* The calls made: a meal_planning route for every message put together
\* from DaysFragments, a travel route with and without overrides, and the
\* route process_message asks for (the classifier's intent) for every
\* message put together from ClassifyFragments.
RouteInputs ==
    {[intent |-> "meal_planning", message |-> Concat(ps), extras |-> <<>>] :
        ps \in UNION {[1..n -> DaysFragments] : n \in 0..MaxFragments}}
    \cup {[intent |-> "travel", message |-> m, extras |-> e] :
            m \in {MsgTokyo, MsgVacation}, e \in ContextOverrides}
    \cup {[intent |-> parse_intent(m), message |-> m, extras |-> <<>>] :
            m \in ClassifyMessages}

RouteInputInit ==
    /\ now = 0
    /\ stateFiles = <<>>
    /\ indexFiles = <<>>
    /\ lastStore = NoCall
    /\ sessions = <<>>
    /\ uuidCount = 0
    /\ userFiles = <<>>
    /\ inflight = <<>>
    /\ \E i \in RouteInputs :
          lastCall = [op |-> "input", session_id |-> "", message |-> i.message,
                      envelope |-> <<>>, result |-> <<>>, calls |-> <<>>,
                      intent |-> i.intent, extras |-> i.extras]

RouteApply ==
    /\ lastCall.op = "input"
    /\ \E o \in RouterOracles :
         \E r \in {route_to_agent(lastCall.intent,
                                  Merge(RouterContext(lastCall.message),
                                        lastCall.extras),
                                  o)} :
            lastCall' = [op |-> "route_to_agent", session_id |-> "",
                         message |-> lastCall.message, envelope |-> <<>>,
                         result |-> <<r.result>>, calls |-> r.calls,
                         intent |-> lastCall.intent, oracle |-> o,
                         extras |-> lastCall.extras]
    /\ UNCHANGED <<now, storeVars, sessions, uuidCount, userFiles, inflight>>

RouteInputSpec == RouteInputInit /\ [][RouteApply]_vars

\* The digits of the first of the three day patterns that matches the
\* lower-cased message, or <<>>.
FirstDayDigits(message) ==
    IF DaysSearch1(Lower(message)) # <<>> THEN DaysSearch1(Lower(message))
    ELSE IF DaysSearch2(Lower(message)) # <<>> THEN DaysSearch2(Lower(message))
    ELSE DaysSearch3(Lower(message))

\* C21: a meal_planning route calls the meal agent with the integer of the
\* first matching day pattern, 0 included, and with 7 only when no day
\* pattern matches.
C21_DaysPassedThrough ==
    (Routed(lastCall) /\ lastCall.intent = "meal_planning") =>
        /\ Len(lastCall.calls) = 1
        /\ lastCall.calls[1].days =
              IF FirstDayDigits(lastCall.message) # <<>>
              THEN IntOf(FirstDayDigits(lastCall.message))
              ELSE 7

\* The first of the four destination patterns that matches the message, as
\* re.search finds it, or <<>>.
DestinationIn(message) ==
    Cached(extract_destination_table, message, extract_destination(message))

\* C22: a travel route whose message names no destination returns success =
\* false with the request for a destination and calls no agent; one whose
\* message names a destination calls the travel agent exactly once, with
\* that destination, the dates today + 30 and 7 days later, and budget 2000.
C22_TravelRouteDefaults ==
    (Routed(lastCall) /\ lastCall.intent = "travel") =>
        IF DestinationIn(lastCall.message) = <<>>
        THEN /\ ~lastCall.result[1].success
             /\ lastCall.result[1].message =
                   <<"Please specify a destination for your trip">>
             /\ lastCall.calls = <<>>
        ELSE /\ Len(lastCall.calls) = 1
             /\ lastCall.calls[1].agent = "travel"
             /\ lastCall.calls[1].destination = DestinationIn(lastCall.message)
             /\ lastCall.calls[1].dates[1] = DefaultStartOffset
             /\ lastCall.calls[1].dates[2] - lastCall.calls[1].dates[1]
                   = DefaultNights
             /\ lastCall.calls[1].budget = DefaultBudget

\* A trip to Tokyo was planned, from day 30 to day 37 with budget 2000.
C22_Witness ==
    /\ Routed(lastCall) /\ lastCall.intent = "travel"
    /\ lastCall.message = MsgTokyo
    /\ lastCall.calls # <<>>
    /\ lastCall.calls[1].destination = <<"T", "o", "k", "y", "o">>
    /\ lastCall.calls[1].dates = <<30, 37>>
    /\ lastCall.calls[1].budget = 2000
    /\ lastCall.result[1].success

\* C23: a travel route whose context supplies dates or a budget calls the
\* travel agent with the supplied values, and with the defaults only for
\* what the context does not supply.
C23_ContextOverridesUsed ==
    ( /\ Routed(lastCall) /\ lastCall.intent = "travel"
      /\ "extras" \in DOMAIN lastCall
      /\ lastCall.calls # <<>> ) =>
        /\ lastCall.calls[1].dates =
              Get(lastCall.extras, "dates",
                  <<DefaultStartOffset, DefaultStartOffset + DefaultNights>>)
        /\ lastCall.calls[1].budget =
              Get(lastCall.extras, "budget", DefaultBudget)

----------------------------------------------------------------------------
(* State Store calls in progress.  save_state and delete_state are taken   *)
(* one file operation at a time, so that two calls (of two threads or two  *)
(* processes on one storage directory) interleave between their reads and  *)
(* writes, and a write can fail.  inflight[c] holds a call's position and  *)
(* locals: pc, the index it loaded, the state it loaded, its saved_at, and *)
(* the store as it was when the call began.                                *)

\* Call c begins: a save_state or a delete_state of the c-th task, for
\* user u1.
RaceBegin(c) ==
    /\ c \notin DOMAIN inflight
    /\ \E a \in {[op |-> "save_state", state |-> x] :
                    x \in {y \in CallerStates : Get(y, "user_id", "") = "u1"}}
                \cup {[op |-> "delete_state", state |-> <<>>]} :
          inflight' = Put(inflight, c,
                          [op |-> a.op, task_id |-> <<"t1", "t2">>[c],
                           state |-> a.state, pc |-> "start",
                           index |-> <<>>, loaded |-> <<>>, saved_at |-> 0,
                           before |-> Store])
    /\ UNCHANGED <<now, storeVars, chatVars>>

\* The next file operation of the save_state call c: write the state file,
\* load the user's index, write the index.
SaveStep(c) ==
    /\ c \in DOMAIN inflight
    /\ inflight[c].op = "save_state"
    /\ LET f == inflight[c]
       IN  IF f.pc = "start"
           THEN /\ stateFiles' =
                      Put(stateFiles, f.task_id,
                          Merge(f.state, [task_id |-> f.task_id,
                                          saved_at |-> now]))
                /\ inflight' = [inflight EXCEPT ![c].pc = "wrote",
                                                ![c].saved_at = now]
                /\ UNCHANGED <<indexFiles, lastStore>>
           ELSE IF f.pc = "wrote"
           THEN /\ inflight' =
                      [inflight EXCEPT
                          ![c].pc = "read",
                          ![c].index = load_user_index(indexFiles,
                                                       f.state.user_id)]
                /\ UNCHANGED storeVars
           ELSE /\ indexFiles' =
                      save_user_index(
                          indexFiles, f.state.user_id,
                          IndexAssign(f.index, f.task_id,
                              [task_id    |-> f.task_id,
                               agent_type |-> Get(f.state, "agent_type", "unknown"),
                               status     |-> Get(f.state, "status", "paused"),
                               saved_at   |-> f.saved_at]))
                /\ inflight' = Without(inflight, c)
                /\ lastStore' = [op |-> "save_state", task_id |-> f.task_id,
                                 error |-> "none",
                                 existed |-> task_exists(f.before.files,
                                                         f.task_id)]
                /\ UNCHANGED stateFiles
    /\ UNCHANGED <<now, chatVars>>

\* The next file operation of the delete_state call c: load the state,
\* unlink the state file, load the user's index, write the index.
DeleteStep(c) ==
    /\ c \in DOMAIN inflight
    /\ inflight[c].op = "delete_state"
    /\ LET f == inflight[c]
           done == [op |-> "delete_state", task_id |-> f.task_id,
                    error |-> "none",
                    existed |-> task_exists(f.before.files, f.task_id)]
       IN  IF f.pc = "start"
           THEN /\ inflight' =
                      [inflight EXCEPT
                          ![c].pc = "loaded",
                          ![c].loaded = load_state(stateFiles, f.task_id)]
                /\ UNCHANGED storeVars
           ELSE IF f.pc = "loaded"
           THEN /\ stateFiles' = IF task_exists(stateFiles, f.task_id)
                                 THEN Without(stateFiles, f.task_id)
                                 ELSE stateFiles
                /\ IF f.loaded # <<>> /\ "user_id" \in DOMAIN f.loaded[1]
                   THEN /\ inflight' = [inflight EXCEPT ![c].pc = "unlinked"]
                        /\ UNCHANGED lastStore
                   ELSE /\ inflight' = Without(inflight, c)
                        /\ lastStore' = done
                /\ UNCHANGED indexFiles
           ELSE IF f.pc = "unlinked"
           THEN /\ inflight' =
                      [inflight EXCEPT
                          ![c].pc = "read",
                          ![c].index = load_user_index(indexFiles,
                                                       f.loaded[1].user_id)]
                /\ UNCHANGED storeVars
           ELSE /\ indexFiles' =
                      IF HasKey(f.index, f.task_id)
                      THEN save_user_index(indexFiles, f.loaded[1].user_id,
                                           IndexDel(f.index, f.task_id))
                      ELSE indexFiles
                /\ inflight' = Without(inflight, c)
                /\ lastStore' = done
                /\ UNCHANGED stateFiles
    /\ UNCHANGED <<now, chatVars>>

\* The write that call c is about to make raises an I/O error, which
\* nothing in the State Store catches: the call ends there.
FailStep(c) ==
    /\ c \in DOMAIN inflight
    /\ \/ inflight[c].op = "save_state" /\ inflight[c].pc \in {"start", "read"}
       \/ inflight[c].op = "delete_state" /\ inflight[c].pc \in {"loaded", "read"}
    /\ inflight' = Without(inflight, c)
    /\ lastStore' = [op |-> inflight[c].op, task_id |-> inflight[c].task_id,
                     error |-> "IOError",
                     existed |-> task_exists(inflight[c].before.files,
                                             inflight[c].task_id),
                     before |-> inflight[c].before]
    /\ UNCHANGED <<now, stateFiles, indexFiles, chatVars>>

\* Two calls on different tasks of one user, interleaved, no failures.
StoreRaceSpec ==
    Init /\ [][\E c \in {1, 2} : RaceBegin(c) \/ SaveStep(c) \/ DeleteStep(c)]_vars

\* One call at a time, any write of which may fail.
StoreFailSpec ==
    Init /\ [][StoreTick \/ RaceBegin(1) \/ SaveStep(1) \/ DeleteStep(1)
               \/ FailStep(1)]_vars

\* C24: when no State Store call is in progress, u1's index lists exactly
\* the tasks that have a stored record for u1, however the calls on
\* different tasks were interleaved.
C24_ConcurrentCallsKeepIndex ==
    inflight = <<>> =>
        IndexTasks(indexFiles, "u1") = RecordTasks(stateFiles, "u1")

\* The index entry of task_id in the index of user u1, or <<>>.
EntryOf(idx, task_id) ==
    SelectSeq(load_user_index(idx, "u1"), LAMBDA e : e.task_id = task_id)

\* C25: a save_state or delete_state that ended with an I/O error leaves
\* the record of its task and the task's index entry both as they were when
\* the call began, or both changed.
C25_FailedCallIsAtomic ==
    lastStore.error = "IOError" =>
        ( load_state(stateFiles, lastStore.task_id) =
              load_state(lastStore.before.files, lastStore.task_id) )
        <=> ( EntryOf(indexFiles, lastStore.task_id) =
                 EntryOf(lastStore.before.idx, lastStore.task_id) )

----------------------------------------------------------------------------
(* Session Store with two users: sessions are created for either user,     *)
(* receive messages, and are closed (live, closed and never created ids).  *)

SessionCreate ==
    \E u \in Users, d \in {0, 1} :
        /\ uuidCount < Len(Uuids)
        /\ now + d <= MaxTime
        /\ sessions' = create_session(sessions, userFiles, Uuids[uuidCount + 1],
                                      u, now, now + d)
        /\ uuidCount' = uuidCount + 1
        /\ now' = now + d
        /\ lastCall' = [op |-> "create_session",
                        session_id |-> Uuids[uuidCount + 1], user_id |-> u]
        /\ UNCHANGED <<userFiles, storeVars, inflight>>

SessionSpec ==
    Init /\ [][ChatTick \/ SessionCreate \/ ChatAdd \/ ChatClose]_vars

\* C26: create_session(u) adds one session under an id no session has had,
\* with an empty history, to what list_user_sessions(u) returns and to no
\* other user's list; close_session(id) removes the session with that id
\* from its owner's list and changes nothing when no session has that id;
\* get_session of a closed or never created id returns None.
C26_SessionLifecycle ==
    [][ /\ lastCall'.op = "create_session" =>
            LET id == lastCall'.session_id
                u  == lastCall'.user_id
            IN  /\ get_session(sessions, id) = <<>>
                /\ \A i \in 1..uuidCount : Uuids[i] # id
                /\ get_session(sessions', id) # <<>>
                /\ get_session(sessions', id)[1].session_id = id
                /\ get_conversation_history(sessions', id) = <<>>
                /\ list_user_sessions(sessions', u) =
                      list_user_sessions(sessions, u)
                          \cup {get_session(sessions', id)[1]}
                /\ \A v \in Users \ {u} :
                      list_user_sessions(sessions', v) =
                          list_user_sessions(sessions, v)
        /\ lastCall'.op = "close_session" =>
            LET id == lastCall'.session_id
            IN  /\ get_session(sessions', id) = <<>>
                /\ get_session(sessions, id) = <<>> => sessions' = sessions
                /\ \A v \in Users :
                      list_user_sessions(sessions', v) =
                          {s \in list_user_sessions(sessions, v) :
                              s.session_id # id}
        /\ \A i \in (uuidCount' + 1)..Len(Uuids) :
              get_session(sessions', Uuids[i]) = <<>>
        /\ \A v \in Users :
              /\ \A s \in list_user_sessions(sessions', v) :
                    /\ s.user_id = v
                    /\ get_session(sessions', s.session_id) = <<s>>
              /\ \A s, t \in list_user_sessions(sessions', v) :
                    s.session_id = t.session_id => s = t
      ]_vars

\* Sessions were created for both users and the first user's session has
\* been closed, the second user's staying listed.
C26_Witness ==
    /\ lastCall.op = "close_session"
    /\ uuidCount = Len(Uuids)
    /\ get_session(sessions, lastCall.session_id) = <<>>
    /\ list_user_sessions(sessions, "u1") = {}
    /\ list_user_sessions(sessions, "u2") # {}

----------------------------------------------------------------------------
\* C27: every session a process_message call adds to the Session Store is
\* handed back: the returned envelope carries that session's id.
C27_CreatedSessionReturned ==
    [][ Processed(lastCall') =>
          \A id \in DOMAIN sessions' \ DOMAIN sessions :
              /\ "session_id" \in DOMAIN Envelope(lastCall')
              /\ Envelope(lastCall').session_id = id
      ]_vars

----------------------------------------------------------------------------
(* process_message calls in progress.  A call on an existing session       *)
(* suspends at its awaits: the preference load, the agent call and the     *)
(* session update; another call runs between them.  inflight[c] holds the  *)
(* call's arguments and locals, and stays, with pc "done", once the call   *)
(* has returned.                                                           *)

\* (variant) update_session extends the session as the call found it on
\* entry and saves that copy
StoreAtUpdate_OnEntry(before, live) == before

\* The Session Store update_session works on: get, extend, stamp and save
\* run without an await between them, on the stored Session object itself.
StoreAtUpdate(before, live) == live

\* Call c begins on a session in the store, for the session's user.
ChatRaceBegin(c) ==
    /\ c \notin DOMAIN inflight
    /\ \E id \in DOMAIN sessions, m \in ChatMessages, o \in Oracles :
          inflight' = Put(inflight, c,
                          [op |-> "process_message",
                           user_id |-> sessions[id].user_id,
                           session_id |-> id, message |-> m, oracle |-> o,
                           pc |-> "start", preferences |-> <<>>,
                           intent |-> IntentOf(m), routed |-> <<>>,
                           summary |-> <<>>, before |-> sessions])
    /\ UNCHANGED <<now, storeVars, chatVars>>

\* Call c runs up to its next await: the preference load, then the
\* classification and the agent call with the summary, then the session
\* update and the return.
ChatRaceStep(c) ==
    /\ c \in DOMAIN inflight
    /\ inflight[c].op = "process_message"
    /\ inflight[c].pc # "done"
    /\ \E f \in {inflight[c]} :
          IF f.pc = "start"
          THEN /\ inflight' =
                     [inflight EXCEPT
                         ![c].pc = "loaded",
                         ![c].preferences =
                             get_all_preferences(userFiles, f.user_id)]
               /\ UNCHANGED sessions
          ELSE IF f.pc = "loaded" /\ f.intent = "ambiguous"
          THEN /\ inflight' = [inflight EXCEPT ![c].pc = "done"]
               /\ UNCHANGED sessions
          ELSE IF f.pc = "loaded"
          THEN /\ \E routed \in {route_to_agent(
                                     f.intent,
                                     [user_id |-> f.user_id,
                                      session_id |-> f.session_id,
                                      preferences |-> f.preferences,
                                      message |-> f.message],
                                     f.oracle)} :
                     inflight' =
                         [inflight EXCEPT
                             ![c].pc = "routed",
                             ![c].routed = <<routed>>,
                             ![c].summary =
                                 generate_summary(f.intent, routed.result)]
               /\ UNCHANGED sessions
          ELSE /\ sessions' =
                     Respond(StoreAtUpdate(f.before, sessions), f.session_id,
                             FALSE, f.message, f.intent, f.routed[1],
                             f.summary, now).sessions
               /\ inflight' = [inflight EXCEPT ![c].pc = "done"]
    /\ UNCHANGED <<now, storeVars, uuidCount, userFiles, lastCall>>

ChatRaceSpec ==
    Init /\ [][ChatTick \/ ChatCreate
               \/ \E c \in {1, 2} : ChatRaceBegin(c) \/ ChatRaceStep(c)]_vars

\* The calls that have updated session id and returned.
Updated(id) ==
    {c \in DOMAIN inflight :
        /\ inflight[c].op = "process_message"
        /\ inflight[c].pc = "done"
        /\ inflight[c].session_id = id
        /\ inflight[c].intent # "ambiguous"}

\* C28: however the process_message calls on a session interleave, the
\* session's history consists of one pair per returned call: the call's
\* user message immediately followed by that call's summary, no pair lost
\* and none split by the other call's messages.
C28_ExchangesStayPaired ==
    \A id \in DOMAIN sessions :
        /\ Len(sessions[id].messages) = 2 * Cardinality(Updated(id))
        /\ \E pos \in [Updated(id) -> 1..Cardinality(Updated(id))] :
              /\ \A c, e \in Updated(id) : pos[c] = pos[e] => c = e
              /\ \A c \in Updated(id) :
                    /\ sessions[id].messages[2 * pos[c] - 1] =
                          [role |-> "user", content |-> inflight[c].message]
                    /\ sessions[id].messages[2 * pos[c]] =
                          [role |-> "assistant",
                           content |-> inflight[c].summary]

\* Two calls with different messages on one session ran interleaved, the
\* second beginning and finishing its agent call before the first's update,
\* and both have returned.
C28_Witness ==
    /\ DOMAIN inflight = {1, 2}
    /\ Updated("s1") = {1, 2}
    /\ inflight[1].message # inflight[2].message
    /\ inflight[2].before = inflight[1].before
    /\ sessions["s1"].messages[1].content = inflight[2].message

----------------------------------------------------------------------------
\* C29: when route_to_agent is given the intent multi_domain that
\* _parse_intent returned for the message, the aggregate holds one item for
\* each domain whose keywords the classifier found in the message: at least
\* two items, no detected domain left out.
C29_RouterCoversClassifier ==
    ( /\ Routed(lastCall)
      /\ lastCall.intent = "multi_domain"
      /\ IntentOf(lastCall.message) = "multi_domain" ) =>
        /\ Len(lastCall.result[1].data) >= 2
        /\ \A d \in PresentDomains(lastCall.message) :
              \E i \in 1..Len(lastCall.result[1].data) :
                  ItemKind(lastCall.result[1].data[i]) \in {d, "raised"}

----------------------------------------------------------------------------
\* The step left alone everything but task_id's record, user_id's index
\* file and, within that index, the entry of task_id.
OthersUnchanged(task_id, user_id) ==
    /\ \A x \in (DOMAIN stateFiles \cup DOMAIN stateFiles') \ {task_id} :
          /\ x \in DOMAIN stateFiles /\ x \in DOMAIN stateFiles'
          /\ stateFiles'[x] = stateFiles[x]
    /\ \A v \in (DOMAIN indexFiles \cup DOMAIN indexFiles') \ {user_id} :
          /\ v \in DOMAIN indexFiles /\ v \in DOMAIN indexFiles'
          /\ indexFiles'[v] = indexFiles[v]
    /\ SelectSeqNot(load_user_index(indexFiles', user_id), task_id) =
          SelectSeqNot(load_user_index(indexFiles, user_id), task_id)

\* The user named by the stored state of task_id, "" when there is none.
StoredUser(task_id) ==
    IF load_state(stateFiles, task_id) = <<>> THEN ""
    ELSE Get(load_state(stateFiles, task_id)[1], "user_id", "")

\* C30: save_state(t, state) with state.user_id = u, and delete_state(t)
\* and update_task_status(t, ...) with u the user of t's stored state,
\* change no other task's record, no other user's index, and in u's index
\* nothing but the entry of t, the order of the other entries included.
C30_OtherTasksAndUsersUntouched ==
    [][ /\ \A t \in Tasks, s \in CallerStates :
              (lastStore'.task_id = t /\ SaveState(t, s)) =>
                  OthersUnchanged(t, Get(s, "user_id", ""))
        /\ \A t \in Tasks :
              (lastStore'.task_id = t /\ DeleteState(t)) =>
                  OthersUnchanged(t, StoredUser(t))
        /\ \A t \in Tasks, st \in Statuses :
              (lastStore'.task_id = t /\ UpdateTaskStatus(t, st)) =>
                  OthersUnchanged(t, StoredUser(t))
      ]_vars

\* The first task of a user was deleted while the second stays stored and
\* listed in the same index, another user's index holding an entry too.
C30_Witness ==
    /\ lastStore.op = "delete_state"
    /\ lastStore.task_id = "t1"
    /\ lastStore.existed
    /\ ~task_exists(stateFiles, "t1")
    /\ task_exists(stateFiles, "t2")
    /\ StoredUser("t2") = "u1"
    /\ HasKey(load_user_index(indexFiles, "u1"), "t2")
    /\ ~HasKey(load_user_index(indexFiles, "u1"), "t1")
    /\ load_user_index(indexFiles, "u2") # <<>>

====
